---- MODULE Spec2Model ----
(***************************************************************************)
(* SIA-DC receiver: the forwarding pipeline (event bus, forward worker,    *)
(* retry loop), the producers that feed it (SIAService._on_event and the   *)
(* /replay route) and the lifespan start/stop sequence.                    *)
(*                                                                         *)
(* Time is abstract: a delay is a number of units of                       *)
(* FORWARD_RETRY_BASE_DELAY's scale, a timeout is a step that may fire     *)
(* whenever the awaited thing has not completed.  One step of the model is *)
(* the code that runs between two suspension points of one coroutine.      *)
(***************************************************************************)
EXTENDS Integers, Sequences, FiniteSets

\* ------------------------------------------------------------------ bounds
MaxEvents == 2
MaxRetries == 3
MaxBaseDelay == 2
MaxAccounts == 2
MaxKeys == 2
MaxHeartbeatCodes == 2
MaxFrames == 3

\* --------------------------------------------------------- program constants
\* asyncio.Queue() is built without a maxsize: 0 means "no limit".
maxsize == 0

None == "None"

\* ------------------------------------------------------------------- inputs
\* Events as the SIA library hands them to the callback.  An attribute the
\* event object does not carry reads as None (getattr's default); `values`
\* is <<>> when absent or None and <<d>> when it is the dict d (a set of
\* key/value pairs); `timestamp` is <<>> or <<t>>.
EvBA ==
    [account |-> "AAA", message_type |-> "N", code |-> "BA", zone |-> "001",
     partition |-> "2", receiver |-> "R1", timestamp |-> <<7>>,
     full_message |-> "frameBA", values |-> << {<<"k", "v">>} >>]

EvYK ==
    [account |-> "BBB", message_type |-> None, code |-> "YK", zone |-> None,
     partition |-> None, receiver |-> None, timestamp |-> <<>>,
     full_message |-> "frameYK", values |-> <<>>]

Events == {EvBA, EvYK}

\* Frames on the panel connection: a sequence number and the decoded event.
Frames == {[seq |-> 1, ev |-> EvBA], [seq |-> 2, ev |-> EvYK]}
NoFrame == [seq |-> 0, ev |-> EvYK]

\* ReplayEvent bodies (the schema's defaults).
ReplayEvents ==
    {[account |-> "AAA", message_type |-> "N", code |-> "BA", zone |-> None,
      timestamp |-> <<>>, raw |-> "TEST", extras |-> {}]}

\* What one HTTP attempt can come back with: a status, or a transport error.
Statuses == {199, 200, 299, 300, 500}
Responses ==
    {[exc |-> FALSE, status |-> s] : s \in Statuses} \cup {[exc |-> TRUE, status |-> 0]}
NoResp == [id |-> 0, exc |-> TRUE, status |-> 0]

Ids == 1..MaxEvents

VARIABLES
    max_retries,     \* settings.FORWARD_MAX_RETRIES
    base_delay,      \* settings.FORWARD_RETRY_BASE_DELAY
    tz_valid,        \* whether ZoneInfo(settings.APP_TIMEZONE) can be built
    ids,             \* settings.SIA_ACCOUNTS
    keys,            \* settings.SIA_KEYS, each key as its length (0: the empty string)
    hb_codes,        \* settings.HEARTBEAT_CODES
    map_in,          \* the ForwardItem handed to map_to_saras_payload
    extra_headers,   \* settings.FORWARD_EXTRA_HEADERS
    cookie,          \* settings.FORWARD_COOKIE
    auth_header,     \* settings.FORWARD_AUTH_HEADER
    forward_queue,   \* the queue's items, oldest first
    unfinished,      \* the queue's unfinished-task counter (join waits for 0)
    startup_event,
    shutdown_event,
    lifespan_pc,     \* where lifespan() is
    listening,       \* the SIA client (TCP listener) is started
    accounts,        \* the accounts the SIA client was built with
    start_error,     \* the exception SIAService.start() raised, "none" if none
    status_reply,    \* the last reply of GET /sia-dc/status, <<>> before any
    payload,         \* what map_to_saras_payload returned, <<>> before any
    sim,             \* the SIASimulator object: account, sequence
    frame,           \* what build_sia_message returned last, <<>> before any
    worker_pc,       \* where the forward_worker task is suspended
    cur,             \* the item the worker holds, NoEntry when none
    attempt,
    delay,
    \* history variables
    enqueued,        \* number of put() calls so far
    acks,            \* ACK responses written on the connection
    replays,         \* /replay requests served
    last_frame,      \* the last frame accepted on the connection
    naks,            \* NAK responses written on the connection (0 or 1: capped)
    posts,           \* POSTs issued, per item
    headers,         \* _forward_with_retries' local `headers`
    sent,            \* the header dicts the POSTs of each item carried
    outcome,         \* terminal outcome, per item
    done,            \* task_done() calls, per item
    last_resp,       \* the last HTTP response the worker received
    sleeps           \* backoff delays slept (asyncio.sleep calls), per item

vars ==
    <<max_retries, base_delay, tz_valid, ids, keys, hb_codes, map_in,
      extra_headers, cookie, auth_header, payload, sim, frame,
      forward_queue, unfinished,
      startup_event, shutdown_event, lifespan_pc, listening, accounts, start_error,
      status_reply, worker_pc, cur, attempt, delay, headers,
      enqueued, acks, replays, last_frame, naks, posts, sent, outcome, done,
      last_resp, sleeps>>

config ==
    <<max_retries, base_delay, tz_valid, ids, keys, hb_codes, map_in, extra_headers,
      cookie, auth_header>>
startVars == <<accounts, start_error>>
simVars == <<sim, frame>>
workerVars == <<worker_pc, cur, attempt, delay, headers>>
workerHist == <<posts, sent, outcome, done, last_resp, sleeps>>
wireHist == <<acks, replays, last_frame, naks>>

\* ------------------------------------------------------------ ForwardItem
NoItem ==
    [account |-> None, message_type |-> None, code |-> None, zone |-> None,
     partition |-> None, receiver |-> None, timestamp |-> <<>>, raw |-> None,
     extras |-> {}]

NoEntry == [id |-> 0, item |-> NoItem]

\* `values or {}`
OrEmpty(v) == IF v = <<>> THEN {} ELSE v[1]

\* Variant: reads the frame from an attribute `raw`, which the event lacks.
ItemFromEventRawAttr(event) ==
    [account |-> event.account, message_type |-> event.message_type,
     code |-> event.code, zone |-> event.zone, partition |-> event.partition,
     receiver |-> event.receiver, timestamp |-> event.timestamp,
     raw |-> None, extras |-> OrEmpty(event.values)]

ItemFromEvent(event) ==
    [account |-> event.account, message_type |-> event.message_type,
     code |-> event.code, zone |-> event.zone, partition |-> event.partition,
     receiver |-> event.receiver, timestamp |-> event.timestamp,
     raw |-> event.full_message, extras |-> OrEmpty(event.values)]

\* ForwardItem(**e.model_dump()): the fields ReplayEvent has; the rest default.
ItemFromReplay(e) ==
    [account |-> e.account, message_type |-> e.message_type, code |-> e.code,
     zone |-> e.zone, partition |-> None, receiver |-> None,
     timestamp |-> e.timestamp, raw |-> e.raw, extras |-> e.extras]

\* ------------------------------------------------------------------ queue
QueueFull(q) == maxsize > 0 /\ Len(q) >= maxsize

QueuePut(q, x) == Append(q, x)

\* Variant: a LIFO get.
QueueBack(q) == q[Len(q)]

QueueFront(q) == Head(q)

QueueRest(q) == Tail(q)

\* put(): blocks while the queue is full, then appends and counts the task.
Put(item) ==
    /\ ~QueueFull(forward_queue)
    /\ enqueued < MaxEvents
    /\ forward_queue' = QueuePut(forward_queue, [id |-> enqueued + 1, item |-> item])
    /\ unfinished' = unfinished + 1
    /\ enqueued' = enqueued + 1

TaskDone(u) == u - 1

\* --------------------------------------------------------------- settings
\* The fields class Settings declares.
SettingsFields ==
    {"LOG_LEVEL", "SIA_HOST", "SIA_PORT", "SIA_ACCOUNTS", "SIA_KEYS", "FORWARD_URL",
     "FORWARD_AUTH_HEADER", "FORWARD_COOKIE", "FORWARD_TIMEOUT", "FORWARD_MAX_RETRIES",
     "FORWARD_RETRY_BASE_DELAY", "FORWARD_EXTRA_HEADERS", "APP_TIMEZONE",
     "HEARTBEAT_CODES"}

\* Reading settings.<name> raises AttributeError for a name that is no field.
HasSetting(name) == name \in SettingsFields

\* --------------------------------------------------------------- accounts
SeqsUpTo(S, n) == UNION {[1..k -> S] : k \in 0..n}

AccountIds == {"AAA", "BBB"}
KeyChoices == {0, 15, 16, 24, 32, 33}
KeyLengths == {16, 24, 32}

\* keys[i] if i < len(keys) else "" (i counts from 1 here)
KeyAt(ks, i) == IF i <= Len(ks) THEN ks[i] ELSE 0

\* key = key or None; if key and len(key) not in (16, 24, 32): raise ValueError
KeyRejected(key) == key # 0 /\ key \notin KeyLengths

\* _build_accounts from account i on, `out` built so far: the accounts, or
\* the exception that ends the loop.
RECURSIVE BuildFrom(_, _, _, _)
BuildFrom(i, acc_ids, ks, out) ==
    IF i > Len(acc_ids)
        THEN [err |-> "none", out |-> out]
    ELSE IF KeyRejected(KeyAt(ks, i))
        THEN [err |-> "ValueError", out |-> <<>>]
    ELSE IF ~HasSetting("SIA_ALLOWED_TIMEBAND")
        THEN [err |-> "AttributeError", out |-> <<>>]
    ELSE BuildFrom(i + 1, acc_ids, ks,
                   Append(out, [account_id |-> acc_ids[i], key |-> KeyAt(ks, i),
                                allowed_timeband |-> <<"SIA_ALLOWED_TIMEBAND",
                                                       "SIA_ALLOWED_TIMEBAND">>,
                                device_timezone |-> IF tz_valid THEN "APP_TIMEZONE"
                                                                ELSE "UTC"]))

BuildAccounts(acc_ids, ks) == BuildFrom(1, acc_ids, ks, <<>>)

\* GET /sia-dc/status: encrypted_accounts
EncryptedAccounts(acc_ids, ks) ==
    SelectSeq([i \in 1..Len(acc_ids) |->
                  IF i <= Len(ks) /\ ks[i] # 0 THEN acc_ids[i] ELSE ""],
              LAMBDA a : a # "")

\* ----------------------------------------------------------------- mapper
\* A str is the sequence of its characters; an Optional[str] is <<>> for
\* None and <<s>> for the str s.
Absent == <<>>
Some(s) == <<s>>

\* bool(x) of an Optional[str]: neither None nor "".
Truthy(opt) == opt # Absent /\ opt[1] # <<>>

\* str.upper(), one character
UpperChar(c) ==
    CASE c = "a" -> "A" [] c = "b" -> "B" [] c = "k" -> "K" [] c = "p" -> "P"
      [] c = "r" -> "R" [] c = "y" -> "Y" [] c = "c" -> "C" [] c = "d" -> "D"
      [] c = "e" -> "E" [] c = "f" -> "F" [] OTHER -> c

\* str.upper()
Upper(s) == [i \in 1..Len(s) |-> UpperChar(s[i])]

Zeros(n) == [i \in 1..n |-> "0"]

\* str.zfill(width): zeros go after a leading sign.
Zfill(s, width) ==
    IF Len(s) >= width THEN s
    ELSE IF Len(s) > 0 /\ s[1] \in {"+", "-"}
        THEN <<s[1]>> \o Zeros(width - Len(s)) \o Tail(s)
    ELSE Zeros(width - Len(s)) \o s

DEFAULT_HEARTBEAT_CODES == {<<"R", "P">>, <<"N", "P">>, <<"Y", "K">>, <<"H", "E">>, <<"H", "B">>}

ToSet(list) == {list[i] : i \in 1..Len(list)}

\* set(settings.HEARTBEAT_CODES or []) or DEFAULT_HEARTBEAT_CODES
HbSet(list) == IF ToSet(list) # {} THEN ToSet(list) ELSE DEFAULT_HEARTBEAT_CODES

\* Variant: the code is looked up as given.
IsHeartbeatAsGiven(code, list) ==
    IF ~Truthy(code) THEN FALSE ELSE code[1] \in HbSet(list)

\* _is_heartbeat
IsHeartbeat(code, list) ==
    IF ~Truthy(code) THEN FALSE ELSE Upper(code[1]) \in HbSet(list)

\* map_to_saras_payload, the fields the item's code, partition and zone decide
MapToSarasPayload(e) ==
    [account_code |-> IF e.account = None THEN "" ELSE e.account,
     event        |-> IF Truthy(e.code) THEN e.code[1] ELSE <<"U", "N", "K", "N">>,
     partition    |-> IF Truthy(e.partition) THEN Some(Zfill(e.partition[1], 2)) ELSE Absent,
     zone         |-> IF Truthy(e.zone) THEN Some(Zfill(e.zone[1], 3)) ELSE Absent,
     is_heartbeat |-> IsHeartbeat(e.code, hb_codes)]

\* The items and settings the mapper is exercised with.
CodeChoices ==
    {Absent, Some(<<>>), Some(<<"R", "P">>), Some(<<"r", "p">>), Some(<<"R", "p">>),
     Some(<<"B", "A">>), Some(<<"b", "a">>), Some(<<"Y", "K">>), Some(<<"y", "k">>)}
ZoneChoices ==
    {Absent, Some(<<>>), Some(<<"5">>), Some(<<"0", "5">>), Some(<<"0", "0", "0">>),
     Some(<<"0", "1", "2", "3">>), Some(<<"-", "5">>), Some(<<"+", "5">>), Some(<<"-">>)}
PartitionChoices ==
    {Absent, Some(<<>>), Some(<<"2">>), Some(<<"0", "2">>), Some(<<"1", "2", "3">>)}
HeartbeatChoices == {<<"R", "P">>, <<"r", "p">>, <<"B", "A">>}

MapItems ==
    [account : {None, "AAA"}, code : CodeChoices, partition : PartitionChoices,
     zone : ZoneChoices]

DefaultItem == [account |-> None, code |-> Absent, partition |-> Absent, zone |-> Absent]

\* ---------------------------------------------------------------- headers
\* A dict is a function from its keys.  {**a, **b}: b's entries win.
Merge(a, b) ==
    [k \in (DOMAIN a) \cup (DOMAIN b) |-> IF k \in DOMAIN b THEN b[k] ELSE a[k]]

\* d[key] = value
SetItem(d, key, value) == [k \in (DOMAIN d) \cup {key} |-> IF k = key THEN value ELSE d[k]]

Dict(key, value) == [k \in {key} |-> value]

\* FORWARD_EXTRA_HEADERS unset: {}
NoExtras == [k \in {} |-> ""]

\* `headers` before _forward_with_retries has bound it.
NoHeaders == Dict("unbound", "")

ExtraHeaderChoices ==
    {NoExtras,
     Dict("X-Site", "dc1"),
     Dict("Content-Type", "text/plain"),
     Dict("Cookie", "sid=extra"),
     Dict("Authorization", "token extra"),
     Merge(Dict("X-Site", "dc1"), Dict("Content-Type", "text/plain"))}
CookieChoices == {"", "sid=1"}
AuthChoices == {"", "token abc"}

\* The headers _forward_with_retries composes before its first attempt.
ComposeHeaders ==
    LET h0 == Merge(Dict("Content-Type", "application/json"), extra_headers)
        h1 == IF cookie # "" THEN SetItem(h0, "Cookie", cookie) ELSE h0
    IN  IF auth_header # "" THEN SetItem(h1, "Authorization", auth_header) ELSE h1

\* -------------------------------------------------------------- simulator
\* str.encode(): the byte of each character the frames are built from.
Ord(c) ==
    CASE c = "\"" -> 34 [] c = "#" -> 35 [] c = "," -> 44 [] c = "-" -> 45
      [] c = "0" -> 48 [] c = "1" -> 49 [] c = "2" -> 50 [] c = "3" -> 51
      [] c = "4" -> 52 [] c = "5" -> 53 [] c = "6" -> 54 [] c = "7" -> 55
      [] c = "8" -> 56 [] c = "9" -> 57 [] c = ":" -> 58
      [] c = "A" -> 65 [] c = "B" -> 66 [] c = "C" -> 67 [] c = "D" -> 68
      [] c = "E" -> 69 [] c = "F" -> 70 [] c = "I" -> 73 [] c = "K" -> 75
      [] c = "L" -> 76 [] c = "N" -> 78 [] c = "R" -> 82 [] c = "S" -> 83
      [] c = "X" -> 88 [] c = "Y" -> 89 [] c = "[" -> 91 [] c = "]" -> 93
      [] c = "_" -> 95 [] c = "|" -> 124

Encode(str) == [i \in 1..Len(str) |-> Ord(str[i])]

\* a ^ b on non-negative integers
RECURSIVE Xor(_, _)
Xor(a, b) ==
    IF a = 0 THEN b
    ELSE IF b = 0 THEN a
    ELSE (((a % 2) + (b % 2)) % 2) + 2 * Xor(a \div 2, b \div 2)

\* The inner loop of calculate_crc, n rounds left: the crc after them.
RECURSIVE CrcRounds(_, _, _)
CrcRounds(temp, crc, n) ==
    IF n = 0 THEN crc
    ELSE LET t1 == Xor(temp, crc % 2)
             c1 == crc \div 2
         IN  IF t1 % 2 # 0 THEN CrcRounds(t1 \div 2, Xor(c1, 40961), n - 1)
                           ELSE CrcRounds(t1 \div 2, c1, n - 1)

\* The outer loop of calculate_crc over bytes lo..hi, entered with `crc`:
\* the bytes are taken in order, the range halved to keep evaluation shallow
\* (crc is never negative; testing it evaluates it before the descent).
RECURSIVE CrcRange(_, _, _, _)
CrcRange(bytes, lo, hi, crc) ==
    IF crc < 0 \/ lo > hi THEN crc
    ELSE IF lo = hi THEN CrcRounds(bytes[lo], crc, 8)
    ELSE LET mid == (lo + hi) \div 2
         IN  CrcRange(bytes, mid + 1, hi, CrcRange(bytes, lo, mid, crc))

HexDigitsLower ==
    <<"0", "1", "2", "3", "4", "5", "6", "7", "8", "9", "a", "b", "c", "d", "e", "f">>

\* "%x" % n
RECURSIVE HexLower(_)
HexLower(n) ==
    IF n < 16 THEN <<HexDigitsLower[n + 1]>>
    ELSE Append(HexLower(n \div 16), HexDigitsLower[(n % 16) + 1])

\* "%d" % n
RECURSIVE Decimal(_)
Decimal(n) ==
    IF n < 10 THEN <<HexDigitsLower[n + 1]>>
    ELSE Append(Decimal(n \div 10), HexDigitsLower[(n % 10) + 1])

\* Padding of the format specs 04X and 04d: zeros up to width 4, no cut.
Pad04(digits) == IF Len(digits) >= 4 THEN digits ELSE Zeros(4 - Len(digits)) \o digits

\* self.sequence += 1
NextSequence(n) == n + 1

\* calculate_crc
calculate_crc(data) == Zfill(Upper(HexLower(CrcRange(Encode(data), 1, Len(data), 0))), 4)

\* SIASimulator(): account "AAA", sequence 0
NewSimulator == [account |-> <<"A", "A", "A">>, sequence |-> 0]

\* The simulator at its first frame, and late in a long interactive
\* session, two frames before its 10000th.
SequenceChoices == {0, 9998}

SimCodes == {<<"B", "A">>, <<"Y", "K">>}
SimZones == {<<"0", "0", "1">>, <<"0", "0", "0">>, <<"5">>}
SimExtras == {<<>>, <<"X">>}
\* datetime.now().strftime("_%H:%M:%S,%m-%d-%Y")
SimTimestamps ==
    {<<"_", "0", "9", ":", "1", "5", ":", "0", "2", ",", "1", "1", "-", "0", "3", "-",
       "2", "0", "2", "6">>,
     <<"_", "2", "3", ":", "5", "9", ":", "5", "9", ",", "1", "2", "-", "3", "1", "-",
       "2", "0", "2", "5">>}

\* ------------------------------------------------------------------- Init
\* Everything but the settings, as the modules are imported.
InitState ==
    /\ forward_queue = <<>>
    /\ unfinished = 0
    /\ startup_event = FALSE
    /\ shutdown_event = FALSE
    /\ lifespan_pc = "init"
    /\ listening = FALSE
    /\ accounts = <<>>
    /\ start_error = "none"
    /\ status_reply = <<>>
    /\ payload = <<>>
    /\ frame = <<>>
    /\ worker_pc = "none"
    /\ cur = NoEntry
    /\ attempt = 0
    /\ delay = 0
    /\ enqueued = 0
    /\ acks = 0
    /\ replays = 0
    /\ last_frame = NoFrame
    /\ naks = 0
    /\ posts = [i \in Ids |-> 0]
    /\ outcome = [i \in Ids |-> "none"]
    /\ done = [i \in Ids |-> 0]
    /\ last_resp = NoResp
    /\ sleeps = [i \in Ids |-> <<>>]
    /\ headers = NoHeaders
    /\ sent = [i \in Ids |-> {}]

\* The forwarding pipeline's settings vary; the accounts are the default
\* (SIA_ACCOUNTS "AAA", SIA_KEYS "") or none (SIA_ACCOUNTS blank).
Init ==
    /\ max_retries \in -1..MaxRetries
    /\ base_delay \in 1..MaxBaseDelay
    /\ tz_valid \in BOOLEAN
    /\ ids \in {<<>>, <<"AAA">>}
    /\ keys = <<0>>
    /\ hb_codes = <<>>
    /\ map_in = DefaultItem
    /\ extra_headers = NoExtras
    /\ cookie = ""
    /\ auth_header = ""
    /\ sim = NewSimulator
    /\ InitState

\* The process runs until lifespan() has returned or raised.
Alive == lifespan_pc \notin {"done", "failed"}

\* create_task() puts the worker's first run on the loop's ready queue, which
\* the loop serves before it polls for I/O: the worker has run to its first
\* suspension point before any socket or HTTP event is handled, and before
\* the server asks lifespan() to shut down.
WorkerRan == worker_pc \notin {"none", "created"}

\* -------------------------------------------------------------- producers
\* The SIA library validates a frame, writes its response and, for an
\* accepted frame, awaits the registered callback SIAService._on_event.
OnEvent(event) == Put(ItemFromEvent(event))

ReceiveAccepted(f) ==
    /\ Alive /\ listening /\ WorkerRan
    /\ OnEvent(f.ev)
    /\ acks' = acks + 1
    /\ last_frame' = f
    /\ UNCHANGED <<config, payload, simVars, startVars, status_reply, startup_event, shutdown_event, lifespan_pc, listening,
                   workerVars, workerHist, replays, naks>>

ReceiveRejected(f) ==
    /\ Alive /\ listening /\ WorkerRan
    /\ naks' = 1
    /\ UNCHANGED <<config, payload, simVars, startVars, status_reply, forward_queue, unfinished, enqueued, startup_event,
                   shutdown_event, lifespan_pc, listening, workerVars, workerHist,
                   acks, replays, last_frame>>

\* POST /replay: served while the application is up (between lifespan's
\* yield and the start of its shutdown phase).
Replay(e) ==
    /\ lifespan_pc = "running" /\ WorkerRan
    /\ Put(ItemFromReplay(e))
    /\ replays' = replays + 1
    /\ UNCHANGED <<config, payload, simVars, startVars, status_reply, startup_event, shutdown_event, lifespan_pc, listening,
                   workerVars, workerHist, acks, last_frame, naks>>

\* ----------------------------------------------------------------- worker
\* map_to_saras_payload raises when the configured timezone cannot be built.
MapRaises == ~tz_valid

\* Variant: the upper limit included.
IsSuccessUpTo300(resp) == ~resp.exc /\ 200 <= resp.status /\ resp.status <= 300

IsSuccess(resp) == ~resp.exc /\ 200 <= resp.status /\ resp.status < 300

\* Variant: off by one.
ExhaustedOffByOne(n) == n > max_retries

Exhausted(n) == n >= max_retries

\* Variant: no backoff.
NextDelayConstant(d) == d

NextDelay(d) == d * 2

\* `while not shutdown_event.is_set()`: where the worker goes at the loop head.
LoopHead == IF shutdown_event THEN "stopped" ELSE "get"

\* try/finally around the forward call: task_done() for every way out.
\* Variant: task_done() after the call instead of in a finally clause.
MarksDoneOnReturn(out) == out \in {"delivered", "dropped"}

MarksDone(out) == TRUE

\* The forward call for `cur` ends with `out`; the worker goes to `pc`.
Finish(out, pc) ==
    /\ outcome' = [outcome EXCEPT ![cur.id] = out]
    /\ IF MarksDone(out)
          THEN /\ unfinished' = TaskDone(unfinished)
               /\ done' = [done EXCEPT ![cur.id] = @ + 1]
          ELSE UNCHANGED <<unfinished, done>>
    /\ cur' = NoEntry
    /\ worker_pc' = pc

\* The task's first run: up to its first suspension point.
WorkerStart ==
    /\ Alive
    /\ worker_pc = "created"
    /\ worker_pc' = LoopHead
    /\ UNCHANGED <<config, payload, simVars, startVars, status_reply, forward_queue, unfinished, enqueued, startup_event,
                   shutdown_event, lifespan_pc, listening, cur, attempt, delay, headers,
                   workerHist, wireHist>>

\* wait_for(forward_queue.get(), 1.0) times out on an empty queue.
WorkerGetTimeout ==
    /\ Alive
    /\ worker_pc = "get"
    /\ forward_queue = <<>>
    /\ worker_pc' = LoopHead
    /\ UNCHANGED <<config, payload, simVars, startVars, status_reply, forward_queue, unfinished, enqueued, startup_event,
                   shutdown_event, lifespan_pc, listening, cur, attempt, delay, headers,
                   workerHist, wireHist>>

\* get() returns an item; _forward_with_retries runs to its first POST, or
\* the mapping raises and the exception leaves forward_worker.
WorkerGet ==
    /\ Alive
    /\ worker_pc = "get"
    /\ forward_queue # <<>>
    /\ forward_queue' = QueueRest(forward_queue)
    /\ LET e == QueueFront(forward_queue) IN
        IF MapRaises
            THEN /\ outcome' = [outcome EXCEPT ![e.id] = "raised"]
                 /\ IF MarksDone("raised")
                       THEN /\ unfinished' = TaskDone(unfinished)
                            /\ done' = [done EXCEPT ![e.id] = @ + 1]
                       ELSE UNCHANGED <<unfinished, done>>
                 /\ worker_pc' = "crashed"
                 /\ UNCHANGED <<cur, attempt, delay, headers, posts, sent>>
            ELSE /\ cur' = e
                 /\ delay' = base_delay
                 /\ attempt' = 0
                 /\ headers' = ComposeHeaders
                 /\ posts' = [posts EXCEPT ![e.id] = @ + 1]
                 /\ sent' = [sent EXCEPT ![e.id] = @ \cup {ComposeHeaders}]
                 /\ worker_pc' = "post"
                 /\ UNCHANGED <<unfinished, outcome, done>>
    /\ UNCHANGED <<config, payload, simVars, startVars, status_reply, enqueued, startup_event, shutdown_event, lifespan_pc,
                   listening, last_resp, sleeps, wireHist>>

\* The POST completes with `resp`.
WorkerResponse(resp) ==
    /\ Alive
    /\ worker_pc = "post"
    /\ last_resp' = [id |-> cur.id, exc |-> resp.exc, status |-> resp.status]
    /\ IF IsSuccess(resp)
          THEN /\ Finish("delivered", LoopHead)
               /\ UNCHANGED <<attempt, delay, sleeps>>
          ELSE /\ attempt' = attempt + 1
               /\ IF Exhausted(attempt + 1)
                     THEN /\ Finish("dropped", LoopHead)
                          /\ UNCHANGED <<delay, sleeps>>
                     ELSE /\ worker_pc' = "sleep"
                          /\ sleeps' = [sleeps EXCEPT ![cur.id] = Append(@, delay)]
                          /\ UNCHANGED <<cur, delay, unfinished, outcome, done>>
    /\ UNCHANGED <<config, payload, simVars, startVars, status_reply, forward_queue, enqueued, startup_event, shutdown_event,
                   lifespan_pc, listening, headers, posts, sent, wireHist>>

\* The backoff sleep ends: double the delay and POST again.
WorkerWake ==
    /\ Alive
    /\ worker_pc = "sleep"
    /\ delay' = NextDelay(delay)
    /\ posts' = [posts EXCEPT ![cur.id] = @ + 1]
    /\ sent' = [sent EXCEPT ![cur.id] = @ \cup {headers}]
    /\ worker_pc' = "post"
    /\ UNCHANGED <<config, payload, simVars, startVars, status_reply, forward_queue, unfinished, enqueued, startup_event,
                   shutdown_event, lifespan_pc, listening, cur, attempt, headers, outcome,
                   done, last_resp, sleeps, wireHist>>

WorkerStep ==
    \/ WorkerStart
    \/ WorkerGetTimeout
    \/ WorkerGet
    \/ \E resp \in Responses : WorkerResponse(resp)
    \/ WorkerWake

\* --------------------------------------------------------------- lifespan
\* worker_task.cancel(): CancelledError is thrown into the task where it is
\* suspended.  Inside the forward call it leaves through the finally clause.
CancelWorker ==
    IF worker_pc \in {"post", "sleep"}
        THEN /\ Finish("cancelled", "cancelled")
             /\ UNCHANGED <<attempt, delay>>
        ELSE /\ worker_pc' = IF worker_pc \in {"created", "get"}
                                THEN "cancelled" ELSE worker_pc
             /\ UNCHANGED <<cur, attempt, delay, headers, unfinished, outcome, done>>

\* worker_task = asyncio.create_task(forward_worker())
CreateWorker ==
    /\ lifespan_pc = "init"
    /\ lifespan_pc' = "starting"
    /\ worker_pc' = "created"
    /\ UNCHANGED <<config, payload, simVars, startVars, status_reply, forward_queue, unfinished, enqueued, startup_event,
                   shutdown_event, listening, cur, attempt, delay, headers, workerHist,
                   wireHist>>

\* await sia_service.start() returns; startup_event.set(); yield
StartOk ==
    /\ lifespan_pc = "starting"
    /\ BuildAccounts(ids, keys).err = "none"
    /\ accounts' = BuildAccounts(ids, keys).out
    /\ listening' = TRUE
    /\ startup_event' = TRUE
    /\ lifespan_pc' = "running"
    /\ UNCHANGED <<config, payload, simVars, start_error, status_reply, forward_queue, unfinished, enqueued, shutdown_event,
                   workerVars, workerHist, wireHist>>

\* await sia_service.start() raises, in _build_accounts or, the accounts
\* built, in the client's own start (the listener cannot be bound): the
\* exception leaves lifespan().
StartError ==
    IF BuildAccounts(ids, keys).err # "none" THEN BuildAccounts(ids, keys).err
                                             ELSE "OSError"

StartFail ==
    /\ lifespan_pc = "starting"
    /\ start_error' = StartError
    /\ accounts' = BuildAccounts(ids, keys).out
    /\ lifespan_pc' = "failed"
    /\ UNCHANGED <<config, payload, simVars, status_reply, forward_queue, unfinished, enqueued, startup_event,
                   shutdown_event, listening, workerVars, workerHist, wireHist>>

\* The shutdown phase begins: shutdown_event.set()
ShutdownBegin ==
    /\ lifespan_pc = "running" /\ WorkerRan
    /\ shutdown_event' = TRUE
    /\ lifespan_pc' = "stopping"
    /\ UNCHANGED <<config, payload, simVars, startVars, status_reply, forward_queue, unfinished, enqueued, startup_event,
                   listening, workerVars, workerHist, wireHist>>

\* await sia_service.stop() returns; next is forward_queue.join()
StopOk ==
    /\ lifespan_pc = "stopping"
    /\ listening' = FALSE
    /\ lifespan_pc' = "join"
    /\ UNCHANGED <<config, payload, simVars, startVars, status_reply, forward_queue, unfinished, enqueued, startup_event,
                   shutdown_event, workerVars, workerHist, wireHist>>

\* await sia_service.stop() raises: except Exception: worker_task.cancel()
StopFail ==
    /\ lifespan_pc = "stopping"
    /\ CancelWorker
    /\ lifespan_pc' = "done"
    /\ UNCHANGED <<config, payload, simVars, startVars, status_reply, forward_queue, enqueued, startup_event, shutdown_event,
                   listening, headers, posts, sent, last_resp, sleeps, wireHist>>

\* await forward_queue.join() returns once no task is unfinished.
JoinReturn ==
    /\ lifespan_pc = "join"
    /\ unfinished = 0
    /\ lifespan_pc' = "wait_worker"
    /\ UNCHANGED <<config, payload, simVars, startVars, status_reply, forward_queue, unfinished, enqueued, startup_event,
                   shutdown_event, listening, workerVars, workerHist, wireHist>>

\* await asyncio.wait_for(worker_task, timeout=3): the task has ended, by
\* returning or by an exception (re-raised here and swallowed by the except
\* clause, whose cancel() of an ended task does nothing).
WaitWorkerEnded ==
    /\ lifespan_pc = "wait_worker"
    /\ worker_pc \in {"stopped", "crashed"}
    /\ lifespan_pc' = "done"
    /\ UNCHANGED <<config, payload, simVars, startVars, status_reply, forward_queue, unfinished, enqueued, startup_event,
                   shutdown_event, listening, workerVars, workerHist, wireHist>>

\* The 3 s pass first: wait_for cancels the task and raises TimeoutError.
WaitWorkerTimeout ==
    /\ lifespan_pc = "wait_worker"
    /\ worker_pc \notin {"stopped", "crashed"}
    /\ CancelWorker
    /\ lifespan_pc' = "done"
    /\ UNCHANGED <<config, payload, simVars, startVars, status_reply, forward_queue, enqueued, startup_event, shutdown_event,
                   listening, headers, posts, sent, last_resp, sleeps, wireHist>>

\* GET /sia-dc/status, served while the application is up.
StatusRequest ==
    /\ lifespan_pc = "running"
    /\ status_reply' = <<[allowed_accounts |-> ids,
                          encrypted_accounts |-> EncryptedAccounts(ids, keys)]>>
    /\ UNCHANGED <<config, payload, simVars, startVars, forward_queue, unfinished, enqueued,
                   startup_event, shutdown_event, lifespan_pc, listening, workerVars,
                   workerHist, wireHist>>

LifespanStep ==
    \/ CreateWorker
    \/ StartOk
    \/ StartFail
    \/ ShutdownBegin
    \/ StopOk
    \/ StopFail
    \/ JoinReturn
    \/ WaitWorkerEnded
    \/ WaitWorkerTimeout

ProducerStep ==
    \/ \E f \in Frames : ReceiveAccepted(f)
    \/ \E f \in Frames : ReceiveRejected(f)
    \/ \E e \in ReplayEvents : Replay(e)

Next == LifespanStep \/ WorkerStep \/ ProducerStep

Spec == Init /\ [][Next]_vars

\* build_sia_message(code, zone, partition, receiver, extra_data), the clock
\* reading `timestamp`.
build_sia_message(code, zone, partition, receiver, extra_data, timestamp) ==
    LET sequence == NextSequence(sim.sequence)
        seq == Pad04(Decimal(sequence))
        zone_text == IF zone # <<"0", "0", "0">> THEN Zfill(zone, 3) ELSE <<>>
        message_content == <<"N">> \o code \o zone_text \o extra_data
        message_block ==
            <<"[", "#">> \o sim.account \o <<"|">> \o message_content \o <<"]">>
                \o timestamp
        body ==
            <<"\"", "S", "I", "A", "-", "D", "C", "S", "\"">> \o seq \o <<"R">>
                \o receiver \o <<"L">> \o partition \o <<"#">> \o sim.account
                \o message_block
        length_hex == Pad04(Upper(HexLower(Len(body))))
        crc == calculate_crc(body)
    IN  /\ sim' = [sim EXCEPT !.sequence = sequence]
        /\ frame' = <<[full_message |-> crc \o length_hex \o body,
                       body |-> body,
                       built_after |-> sim.sequence]>>

\* One frame built, by test_scenarios or send_custom (partition and
\* receiver at their defaults).
BuildFrame ==
    /\ \E s0 \in SequenceChoices : s0 <= sim.sequence /\ sim.sequence < s0 + MaxFrames
    /\ \E code \in SimCodes, zone \in SimZones, extra_data \in SimExtras,
          timestamp \in SimTimestamps :
          build_sia_message(code, zone, <<"1">>, <<"1">>, extra_data, timestamp)
    /\ UNCHANGED <<config, payload, startVars, status_reply, forward_queue, unfinished,
                   enqueued, startup_event, shutdown_event, lifespan_pc, listening,
                   workerVars, workerHist, wireHist>>

SimInit ==
    /\ max_retries = MaxRetries
    /\ base_delay = 1
    /\ tz_valid = TRUE
    /\ ids = <<>>
    /\ keys = <<0>>
    /\ hb_codes = <<>>
    /\ map_in = DefaultItem
    /\ extra_headers = NoExtras
    /\ cookie = ""
    /\ auth_header = ""
    /\ sim \in [account : {<<"A", "A", "A">>}, sequence : SequenceChoices]
    /\ InitState

SimSpec == SimInit /\ [][BuildFrame]_vars

\* The pipeline over the header settings.
HeaderInit ==
    /\ max_retries = 2
    /\ base_delay = 1
    /\ tz_valid = TRUE
    /\ ids = <<>>
    /\ keys = <<0>>
    /\ hb_codes = <<>>
    /\ map_in = DefaultItem
    /\ extra_headers \in ExtraHeaderChoices
    /\ cookie \in CookieChoices
    /\ auth_header \in AuthChoices
    /\ sim = NewSimulator
    /\ InitState

HeaderSpec == HeaderInit /\ [][Next]_vars

\* Startup alone, over the account and key lists.
StartupInit ==
    /\ max_retries = MaxRetries
    /\ base_delay = 1
    /\ tz_valid \in BOOLEAN
    /\ ids \in SeqsUpTo(AccountIds, MaxAccounts)
    /\ keys \in SeqsUpTo(KeyChoices, MaxKeys) \ {<<>>}
    /\ hb_codes = <<>>
    /\ map_in = DefaultItem
    /\ extra_headers = NoExtras
    /\ cookie = ""
    /\ auth_header = ""
    /\ sim = NewSimulator
    /\ InitState

\* The mapper alone, over items and heartbeat settings.
MapItem ==
    /\ payload = <<>>
    /\ payload' = IF MapRaises THEN <<[raised |-> TRUE]>>
                               ELSE <<MapToSarasPayload(map_in)>>
    /\ UNCHANGED <<config, simVars, startVars, status_reply, forward_queue, unfinished,
                   enqueued, startup_event, shutdown_event, lifespan_pc, listening,
                   workerVars, workerHist, wireHist>>

MapInit ==
    /\ max_retries = MaxRetries
    /\ base_delay = 1
    /\ tz_valid \in BOOLEAN
    /\ ids = <<>>
    /\ keys = <<0>>
    /\ hb_codes \in SeqsUpTo(HeartbeatChoices, MaxHeartbeatCodes)
    /\ map_in \in MapItems
    /\ extra_headers = NoExtras
    /\ cookie = ""
    /\ auth_header = ""
    /\ sim = NewSimulator
    /\ InitState

MapSpec == MapInit /\ [][MapItem]_vars

StartupNext == CreateWorker \/ WorkerStart \/ StartOk \/ StartFail \/ StatusRequest

StartupSpec == StartupInit /\ [][StartupNext]_vars

\* ================================================================ claims
Is2xx(r) == ~r.exc /\ r.status \in 200..299

Terminal(id) == outcome[id] # "none"

\* C1: with FORWARD_MAX_RETRIES = N >= 1 no item is ever POSTed more than N
\* times, the worker never sleeps after the N-th attempt, and an item is
\* dropped after exactly N POSTs, each of which failed.
C1_RetryBudget ==
    max_retries >= 1 =>
        /\ \A id \in Ids :
            /\ posts[id] <= max_retries
            /\ outcome[id] = "dropped" =>
                /\ posts[id] = max_retries
                /\ Len(sleeps[id]) = max_retries - 1
        /\ worker_pc = "sleep" => posts[cur.id] < max_retries
        /\ last_resp.id # 0 /\ outcome[last_resp.id] = "dropped" => ~Is2xx(last_resp)

C1_Witness ==
    \E id \in Ids : max_retries = 3 /\ outcome[id] = "dropped" /\ posts[id] = 3

\* C2 as claimed: with max_retries = 3 an item whose attempts all fail has
\* slept base, 2*base, 4*base.
C2_ThreeSleeps ==
    max_retries = 3 =>
        \A id \in Ids : outcome[id] = "dropped" =>
            sleeps[id] = <<base_delay, 2 * base_delay, 4 * base_delay>>

\* C2 amended: with max_retries = 3 an item whose attempts all fail has slept
\* exactly base, 2*base, in that order; no sleep follows the last attempt.
\* The sleeps of any item in progress are a prefix of that schedule.
C2_TwoSleeps ==
    max_retries = 3 =>
        \A id \in Ids :
            /\ \A k \in 1..Len(sleeps[id]) :
                   sleeps[id][k] = (IF k = 1 THEN 1 ELSE 2) * base_delay
            /\ Len(sleeps[id]) <= 2
            /\ outcome[id] = "dropped" => Len(sleeps[id]) = 2

C2_Witness ==
    \E id \in Ids :
        /\ max_retries = 3 /\ base_delay = 2
        /\ outcome[id] = "dropped"
        /\ sleeps[id] = <<2, 4>>

\* C3: an attempt succeeds iff its status is in 200..299; the attempt that
\* succeeds is the item's last POST (k-1 failures and sleeps, then the k-th
\* POST), and a delivered item stays delivered with no further POST.
C3_State ==
    /\ last_resp.id # 0 => (Is2xx(last_resp) <=> outcome[last_resp.id] = "delivered")
    /\ \A id \in Ids : outcome[id] = "delivered" =>
        /\ posts[id] = Len(sleeps[id]) + 1
        /\ done[id] = 1

C3_Step ==
    \A id \in Ids : outcome[id] = "delivered" =>
        /\ outcome'[id] = "delivered"
        /\ posts'[id] = posts[id]
        /\ sleeps'[id] = sleeps[id]

C3_SuccessStops == [](C3_State) /\ [][C3_Step]_vars

C3_Witness ==
    \E id \in Ids : outcome[id] = "delivered" /\ posts[id] = 3 /\ last_resp.status = 299

\* C4: task_done() has been called once for an item exactly when the item
\* has its terminal outcome; the unfinished-task counter is the number of
\* items queued or held by the worker, so it is 0 (join() returns) once
\* every enqueued item has been processed.
C4_TaskDoneOnce ==
    /\ \A id \in Ids : done[id] = (IF Terminal(id) THEN 1 ELSE 0)
    /\ unfinished = Len(forward_queue) + (IF cur.id # 0 THEN 1 ELSE 0)
    /\ (\A id \in 1..enqueued : Terminal(id)) => unfinished = 0

C4_Witness ==
    /\ enqueued = 2
    /\ outcome[1] = "dropped" /\ last_resp.status = 500
    /\ outcome[2] = "dropped"
    /\ unfinished = 0

\* C5: items are forwarded in the order they were enqueued: no item has been
\* started (POSTed, or taken from the queue) while an earlier one has no
\* terminal outcome; at most one item is in flight, the one the worker
\* holds; the queue holds the not yet started items, oldest first.
InFlight == {i \in Ids : posts[i] > 0 /\ ~Terminal(i)}

C5_Ordering ==
    /\ \A i, j \in Ids :
           i < j /\ (posts[j] > 0 \/ Terminal(j)) => Terminal(i)
    /\ Cardinality(InFlight) <= 1
    /\ InFlight = (IF cur.id # 0 THEN {cur.id} ELSE {})
    /\ \A k \in 1..Len(forward_queue) :
           /\ posts[forward_queue[k].id] = 0
           /\ ~Terminal(forward_queue[k].id)
           /\ k > 1 => forward_queue[k - 1].id < forward_queue[k].id

C5_Witness ==
    /\ acks >= 1 /\ replays >= 1
    /\ Terminal(1)
    /\ cur.id = 2 /\ posts[2] >= 1

\* C6 as claimed, for a configuration whose timezone is valid: the shutdown
\* phase never blocks for good: once shutdown_event is set, until lifespan()
\* has returned some step of lifespan() or of the worker is possible.
C6_ShutdownReturns ==
    (tz_valid /\ shutdown_event) =>
        (lifespan_pc = "done" \/ ENABLED (LifespanStep \/ WorkerStep))

\* C7 as claimed: the worker does not leave its loop while forward_queue
\* still holds items.
C7_ExitOnlyWhenDrained ==
    [][(worker_pc # "stopped" /\ worker_pc' = "stopped") => forward_queue = <<>>]_vars

\* C8 as claimed: the queue has a capacity, and every enqueue leaves its
\* length within that capacity.
C8_BoundedQueue ==
    [][enqueued' = enqueued + 1 =>
           (maxsize > 0 /\ Len(forward_queue') <= maxsize)]_vars

\* C9 as claimed: every ForwardItem put into the queue corresponds to an
\* ACK'd frame.
C9_OnlyAckedFrames == enqueued = acks

\* C9 amended: an ACK'd frame enqueues exactly one ForwardItem carrying the
\* event's account, message_type, code, zone, partition, receiver, timestamp,
\* raw frame and extras; a rejected frame enqueues nothing; every other item
\* comes from a POST /replay request, one per request.
C9_Step ==
    /\ acks' = acks + 1 =>
        LET ev == last_frame'.ev IN
        /\ enqueued' = enqueued + 1
        /\ Len(forward_queue') = Len(forward_queue) + 1
        /\ forward_queue'[Len(forward_queue')] =
               [id |-> enqueued + 1,
                item |-> [account |-> ev.account, message_type |-> ev.message_type,
                          code |-> ev.code, zone |-> ev.zone,
                          partition |-> ev.partition, receiver |-> ev.receiver,
                          timestamp |-> ev.timestamp, raw |-> ev.full_message,
                          extras |-> IF ev.values = <<>> THEN {} ELSE ev.values[1]]]
    /\ naks' # naks => enqueued' = enqueued /\ forward_queue' = forward_queue
    /\ enqueued' # enqueued =>
        /\ enqueued' = enqueued + 1
        /\ (acks' = acks + 1 /\ replays' = replays)
               \/ (acks' = acks /\ replays' = replays + 1)

C9_AckedOrReplayed == [](enqueued = acks + replays) /\ [][C9_Step]_vars

C9_Witness ==
    /\ acks = 1 /\ replays = 1
    /\ Len(forward_queue) = 2
    /\ forward_queue[2].item.raw = "frameBA"
    /\ forward_queue[1].item.raw = "TEST"

\* C10 as claimed: when an accepted frame repeats the frame accepted just
\* before it on the connection (same sequence, same content) it is
\* acknowledged and nothing is enqueued for it.
C10_DuplicateNotEnqueued ==
    [][(acks' = acks + 1 /\ last_frame' = last_frame) => enqueued' = enqueued]_vars


\* ------------------------------------------------------- startup (C11-C13)
\* Some configured account has a key of a length the check rejects.
AnyBadKey == \E i \in 1..Len(ids) : KeyAt(keys, i) # 0 /\ KeyAt(keys, i) \notin {16, 24, 32}

StartAttempted == lifespan_pc \in {"running", "failed"}

\* C11: whenever some configured account has a non-empty key whose length is
\* not 16, 24 or 32, SIAService.start raises the key-length configuration
\* error (ValueError), the listener is not started and startup_event is not
\* set; and without such a key that error is never raised.
C11_KeyLengthError ==
    /\ (StartAttempted /\ AnyBadKey) =>
           (start_error = "ValueError" /\ ~listening /\ ~startup_event)
    /\ (start_error = "ValueError") => AnyBadKey

\* C12: with at least one account id and every key absent or of length
\* 16/24/32, _build_accounts does not raise: it returns one account per id,
\* in order, each with the symmetric timeband, and the only way start can
\* fail is the listener's own start.
C12_ValidConfigBuilds ==
    (StartAttempted /\ Len(ids) >= 1 /\ ~AnyBadKey) =>
        /\ start_error \in {"none", "OSError"}
        /\ Len(accounts) = Len(ids)
        /\ \A i \in 1..Len(ids) :
              /\ accounts[i].account_id = ids[i]
              /\ accounts[i].allowed_timeband[1] = accounts[i].allowed_timeband[2]

\* The accounts _build_accounts registered with a key.
RegisteredWithKey == {accounts[j].account_id : j \in {k \in 1..Len(accounts) : accounts[k].key # 0}}

\* The accounts GET /sia-dc/status reports as encrypted.
ReportedEncrypted ==
    {EncryptedAccounts(ids, keys)[j] : j \in 1..Len(EncryptedAccounts(ids, keys))}

\* C13: for every pair of account and key lists with acceptable keys, once
\* start has built the accounts, the set GET /sia-dc/status reports as
\* encrypted_accounts is exactly the set of accounts registered with a key.
C13_StatusMatchesRegistered ==
    (StartAttempted /\ ~AnyBadKey) => ReportedEncrypted = RegisteredWithKey


\* ------------------------------------------------------------ startup (C20)
\* The forward-worker task exists and has neither returned, raised nor been
\* cancelled.
WorkerLeftRunning == worker_pc \in {"created", "get", "post", "sleep"}

\* C20: startup_event is set only once the worker task has been created and
\* SIAService.start has returned; and once start has raised, startup_event
\* is unset and no forward-worker task is left running.
C20_AllOrNothing ==
    /\ startup_event =>
           /\ worker_pc # "none"
           /\ start_error = "none"
           /\ lifespan_pc \notin {"init", "starting", "failed"}
    /\ (lifespan_pc = "failed") => (~startup_event /\ ~WorkerLeftRunning)


\* ---------------------------------------------------------- mapper (C14, C15)
\* map_to_saras_payload has returned a payload.
Mapped == payload # <<>> /\ "event" \in DOMAIN payload[1]

\* The configured heartbeat set, the default one when the list is empty.
C14_H ==
    IF hb_codes = <<>>
        THEN {<<"R", "P">>, <<"N", "P">>, <<"Y", "K">>, <<"H", "E">>, <<"H", "B">>}
        ELSE {hb_codes[i] : i \in 1..Len(hb_codes)}

\* C14: for every code C and every configured heartbeat list, the payload's
\* is_heartbeat is true iff C is present, non-empty and C.upper() is in the
\* configured set (the default set when the list is empty).
C14_Heartbeat ==
    Mapped =>
        (payload[1].is_heartbeat <=>
            /\ map_in.code # Absent
            /\ map_in.code[1] # <<>>
            /\ Upper(map_in.code[1]) \in C14_H)

\* A lower-case code is classified by its upper-case form.
C14_Witness ==
    /\ Mapped
    /\ map_in.code = Some(<<"r", "p">>)
    /\ hb_codes = <<>>
    /\ payload[1].is_heartbeat

\* s padded with zeros on the left up to width w.
LeftZeroPadded(s, w) == IF Len(s) >= w THEN s ELSE [i \in 1..(w - Len(s)) |-> "0"] \o s

\* C15: the payload's partition is the item's partition left-zero-padded to
\* width 2 and its zone the item's zone left-zero-padded to width 3, null
\* for an absent or empty one; the event is the code, "UNKN" for an absent
\* or empty code.
C15_ZeroPadding ==
    Mapped =>
        /\ payload[1].partition =
              IF map_in.partition = Absent \/ map_in.partition = Some(<<>>) THEN Absent
              ELSE Some(LeftZeroPadded(map_in.partition[1], 2))
        /\ payload[1].zone =
              IF map_in.zone = Absent \/ map_in.zone = Some(<<>>) THEN Absent
              ELSE Some(LeftZeroPadded(map_in.zone[1], 3))
        /\ payload[1].event =
              IF map_in.code = Absent \/ map_in.code = Some(<<>>) THEN <<"U", "N", "K", "N">>
              ELSE map_in.code[1]


\* ------------------------------------------------------------ headers (C16)
\* C16: every POST carries Content-Type: application/json, Authorization
\* and Cookie equal to the configured values whenever those are non-empty,
\* and every entry of FORWARD_EXTRA_HEADERS; all the POSTs of one item carry
\* the same headers.
C16_Headers ==
    \A i \in Ids :
        /\ Cardinality(sent[i]) <= 1
        /\ \A h \in sent[i] :
              /\ "Content-Type" \in DOMAIN h /\ h["Content-Type"] = "application/json"
              /\ auth_header # "" => ("Authorization" \in DOMAIN h /\ h["Authorization"] = auth_header)
              /\ cookie # "" => ("Cookie" \in DOMAIN h /\ h["Cookie"] = cookie)
              /\ \A k \in DOMAIN extra_headers : k \in DOMAIN h /\ h[k] = extra_headers[k]


\* ------------------------------------------------------ attempt bound (C17)
\* C17: for every value of FORWARD_MAX_RETRIES from 0 up (a negative one
\* bounds nothing), the number of POSTs made for one item never exceeds
\* FORWARD_MAX_RETRIES.
C17_AttemptBound == \A i \in Ids : max_retries >= 0 => posts[i] <= max_retries


\* -------------------------------------------------- worker survival (C18)
\* C18: whatever goes wrong while one dequeued item is handled, the worker
\* task does not terminate: while shutdown_event is not set it has neither
\* returned nor died of an exception, and no item's handling ended in one.
C18_WorkerSurvives ==
    ~shutdown_event =>
        /\ worker_pc \notin {"crashed", "stopped", "cancelled"}
        /\ \A i \in Ids : outcome[i] # "raised"

\* ---------------------------------------------------------- progress (C19)
\* C19: while shutdown_event is not set, an item waiting in forward_queue
\* always has a worker that can take a step towards it, and every item
\* whose handling has ended was delivered or dropped.
C19_Progress ==
    ~shutdown_event =>
        /\ forward_queue # <<>> => ENABLED WorkerStep
        /\ \A i \in Ids : done[i] > 0 => outcome[i] \in {"delivered", "dropped"}


\* ---------------------------------------------------- simulator frames (C21)
\* CRC-16/ARC, the reference: initial value 0, each byte xor-ed into the low
\* bits, then eight right shifts with the reflected polynomial 0xA001 applied
\* on a carry, no final xor.
RECURSIVE ArcShifts(_, _)
ArcShifts(crc, n) ==
    IF n = 0 THEN crc
    ELSE IF crc % 2 = 1 THEN ArcShifts(Xor(crc \div 2, 40961), n - 1)
                        ELSE ArcShifts(crc \div 2, n - 1)

RECURSIVE ArcRange(_, _, _, _)
ArcRange(bytes, lo, hi, crc) ==
    IF crc < 0 \/ lo > hi THEN crc
    ELSE IF lo = hi THEN ArcShifts(Xor(crc, bytes[lo]), 8)
    ELSE ArcRange(bytes, ((lo + hi) \div 2) + 1, hi,
                  ArcRange(bytes, lo, (lo + hi) \div 2, crc))

Crc16Arc(bytes) == ArcRange(bytes, 1, Len(bytes), 0)

UpperHexDigits ==
    <<"0", "1", "2", "3", "4", "5", "6", "7", "8", "9", "A", "B", "C", "D", "E", "F">>

DigitValue(c) == CHOOSE v \in 0..15 : UpperHexDigits[v + 1] = c

IsUpperHex(str) == \A i \in 1..Len(str) : \E v \in 0..15 : UpperHexDigits[v + 1] = str[i]
IsDecimal(str) == \A i \in 1..Len(str) : \E v \in 0..9 : UpperHexDigits[v + 1] = str[i]

\* The number four digits spell in the given base.
Value4(str, base) ==
    ((DigitValue(str[1]) * base + DigitValue(str[2])) * base + DigitValue(str[3])) * base
        + DigitValue(str[4])

\* The fields of a frame as the receiver cuts them: four characters of CRC,
\* four of LENGTH, the body; in the body, after "SIA-DCS" in quotes, four
\* characters of sequence, then the receiver field.
FrameCrc(full) == SubSeq(full, 1, 4)
FrameLength(full) == SubSeq(full, 5, 8)
FrameBody(full) == SubSeq(full, 9, Len(full))
FrameSequence(full) == SubSeq(full, 18, 21)

\* C21: in every frame build_sia_message returns, the LENGTH field is the
\* body length as exactly 4 upper-case hex digits, the CRC field is
\* CRC-16/ARC of the body as exactly 4 upper-case hex digits, and the
\* sequence field is exactly 4 decimal digits (the receiver field follows
\* it), one more than that of the frame built before.
C21_WellFormed ==
    frame # <<>> =>
        LET full == frame[1].full_message IN
        /\ FrameBody(full) = frame[1].body
        /\ IsUpperHex(FrameLength(full))
        /\ Value4(FrameLength(full), 16) = Len(frame[1].body)
        /\ IsUpperHex(FrameCrc(full))
        /\ Value4(FrameCrc(full), 16) = Crc16Arc(Encode(frame[1].body))
        /\ IsDecimal(FrameSequence(full))
        /\ full[22] = "R"
        /\ Value4(FrameSequence(full), 10) = frame[1].built_after + 1
        /\ sim.sequence = frame[1].built_after + 1


====
